---------------------------- MODULE Spec2Model ----------------------------
(***************************************************************************)
(* Model of webapp/main.py: the users table, the login_events table, the  *)
(* session cookie and the request handlers of the admin panel.  Every     *)
(* handler is split at its database statements: one action per statement, *)
(* so that requests served by different worker threads interleave between *)
(* their statements.  Form fields and the cookie are drawn from small sets *)
(* at the step at which the handler first reads them (their values do not *)
(* depend on the state, so this yields the same behaviours as drawing them *)
(* on arrival).  POST /login and POST /register never read the cookie of  *)
(* the request: it is drawn when they complete.                            *)
(*                                                                         *)
(* Text that the code transforms (timestamps, the new_password field) is  *)
(* a sequence of one-character strings.                                    *)
(***************************************************************************)
EXTENDS Integers, Sequences, FiniteSets, TLC

(***************************************************************************)
(* Bounds of the model.                                                    *)
(***************************************************************************)
\* login events ever inserted (AUTO_INCREMENT ids 1..MaxEvents)
MaxEvents == 2

\* errors injected: an error is raised only while the counter it feeds
\* (CREATE TABLE statements issued, connections out of the pool) is below it
MaxFaults == 2

Procs == {"w1", "w2"}
Names == {"alice", "bob"}

(***************************************************************************)
(* Text helpers.                                                           *)
(***************************************************************************)
DigitChars == <<"0", "1", "2", "3", "4", "5", "6", "7", "8", "9">>

Whitespace == {" ", "\t", "\n"}

IsDigit(c) == \E i \in 1..10 : DigitChars[i] = c

DigitVal(c) == (CHOOSE i \in 1..10 : DigitChars[i] = c) - 1

AllDigits(s) == \A i \in 1..Len(s) : IsDigit(s[i])

RECURSIVE Num(_)
Num(s) == IF Len(s) = 0 THEN 0
          ELSE 10 * Num(SubSeq(s, 1, Len(s) - 1)) + DigitVal(s[Len(s)])

D2(n) == <<DigitChars[((n \div 10) % 10) + 1], DigitChars[(n % 10) + 1]>>

D4(n) == D2(n \div 100) \o D2(n % 100)

\* str.strip()
RECURSIVE strip(_)
strip(s) ==
    IF Len(s) = 0 THEN s
    ELSE IF s[1] \in Whitespace THEN strip(Tail(s))
    ELSE IF s[Len(s)] \in Whitespace THEN strip(SubSeq(s, 1, Len(s) - 1))
    ELSE s

\* str.replace(old, new) for single characters
replace(s, old, new) == [i \in 1..Len(s) |-> IF s[i] = old THEN new ELSE s[i]]

(***************************************************************************)
(* datetime.fromisoformat and strftime, on the extended ISO format         *)
(* YYYY-MM-DD[xHH[:MM[:SS[.fff[fff]]]]] that every Python 3 release        *)
(* accepts, x being any single character.  UTC offsets are not modelled.   *)
(***************************************************************************)
IsLeap(y) == (y % 4 = 0) /\ ((y % 100 # 0) \/ (y % 400 = 0))

DaysInMonth(y, m) ==
    IF m = 2 THEN (IF IsLeap(y) THEN 29 ELSE 28)
    ELSE IF m \in {4, 6, 9, 11} THEN 30 ELSE 31

NoDateTime == [ok |-> FALSE, year |-> 0, month |-> 0, day |-> 0,
               hour |-> 0, minute |-> 0, second |-> 0]

parse_isoformat_date(d) ==
    IF /\ Len(d) = 10
       /\ AllDigits(SubSeq(d, 1, 4)) /\ d[5] = "-"
       /\ AllDigits(SubSeq(d, 6, 7)) /\ d[8] = "-"
       /\ AllDigits(SubSeq(d, 9, 10))
    THEN LET y == Num(SubSeq(d, 1, 4))
             m == Num(SubSeq(d, 6, 7))
             dd == Num(SubSeq(d, 9, 10))
         IN  IF y >= 1 /\ m \in 1..12 /\ dd >= 1 /\ dd <= DaysInMonth(y, m)
             THEN [NoDateTime EXCEPT !.ok = TRUE, !.year = y, !.month = m, !.day = dd]
             ELSE NoDateTime
    ELSE NoDateTime

parse_isoformat_time(t) ==
    LET n == Len(t)
        shape ==
            /\ n \in {2, 5, 8, 12, 15}
            /\ AllDigits(SubSeq(t, 1, 2))
            /\ n >= 5 => (t[3] = ":" /\ AllDigits(SubSeq(t, 4, 5)))
            /\ n >= 8 => (t[6] = ":" /\ AllDigits(SubSeq(t, 7, 8)))
            /\ n >= 12 => (t[9] = "." /\ AllDigits(SubSeq(t, 10, n)))
    IN  IF shape
        THEN LET h == Num(SubSeq(t, 1, 2))
                 mi == IF n >= 5 THEN Num(SubSeq(t, 4, 5)) ELSE 0
                 s == IF n >= 8 THEN Num(SubSeq(t, 7, 8)) ELSE 0
             IN  IF h <= 23 /\ mi <= 59 /\ s <= 59
                 THEN [NoDateTime EXCEPT !.ok = TRUE, !.hour = h, !.minute = mi, !.second = s]
                 ELSE NoDateTime
        ELSE NoDateTime

fromisoformat(s) ==
    IF Len(s) < 10 THEN NoDateTime
    ELSE LET d == parse_isoformat_date(SubSeq(s, 1, 10))
         IN  IF ~d.ok THEN NoDateTime
             ELSE IF Len(s) = 10 THEN d
             ELSE IF Len(s) = 11 THEN NoDateTime
             ELSE LET t == parse_isoformat_time(SubSeq(s, 12, Len(s)))
                  IN  IF ~t.ok THEN NoDateTime
                      ELSE [d EXCEPT !.hour = t.hour, !.minute = t.minute,
                                     !.second = t.second]

\* parsed.strftime("%Y-%m-%d %H:%M:%S")
strftime(dt) ==
    D4(dt.year) \o <<"-">> \o D2(dt.month) \o <<"-">> \o D2(dt.day) \o <<" ">>
    \o D2(dt.hour) \o <<":">> \o D2(dt.minute) \o <<":">> \o D2(dt.second)

\* parse_timestamp without the normalisation: the cleaned text is checked
\* and returned as it was written.
parse_timestamp_unnormalised(value) ==
    LET cleaned == strip(value)
        parsed == fromisoformat(cleaned)
    IN  IF parsed.ok THEN [ok |-> TRUE, value |-> cleaned]
        ELSE [ok |-> FALSE, value |-> <<>>]

\* [ok |-> FALSE] stands for HTTPException(400, "Invalid timestamp format.")
parse_timestamp(value) ==
    LET cleaned == replace(strip(value), "T", " ")
        parsed == fromisoformat(cleaned)
    IN  IF parsed.ok THEN [ok |-> TRUE, value |-> strftime(parsed)]
        ELSE [ok |-> FALSE, value |-> <<>>]

\* table_editor.format_ts on the text of a stored timestamp
format_ts(ts_value) == replace(ts_value, " ", "T")


(***************************************************************************)
(* Input domains.                                                          *)
(***************************************************************************)
PW1 == <<"p", "w", "1">>
PW2 == <<"p", "w", "2">>
Passwords == {PW1, PW2}

\* the new_password field of the table editor: blank, whitespace only,
\* a password typed with a leading blank
NewPasswords == {<<>>, <<" ">>, <<" ">> \o PW2}

\* request.cookies: <<>> is a request without the session cookie
Cookies == {<<>>, <<"">>} \cup {<<n>> : n \in Names}

UserIds == 1..(Cardinality(Names) + 1)
EventIds == 1..(MaxEvents + 1)

\* the instant the editor submits: a leap day
Instant == [NoDateTime EXCEPT !.ok = TRUE, !.year = 2024, !.month = 2, !.day = 29,
                              !.hour = 10, !.minute = 30]

\* d written as YYYY-MM-DD<sep>HH:MM:SS
IsoText(d, sep) ==
    D4(d.year) \o <<"-">> \o D2(d.month) \o <<"-">> \o D2(d.day) \o <<sep>>
    \o D2(d.hour) \o <<":">> \o D2(d.minute) \o <<":">> \o D2(d.second)

\* d as an <input type="datetime-local"> submits it when the seconds are 0
LocalText(d) == SubSeq(IsoText(d, "T"), 1, 16)

NotADate == <<"n", "o", "t", "-", "a", "-", "d", "a", "t", "e">>

GoodTimestamps ==
    { IsoText(Instant, "T"), IsoText(Instant, " "), LocalText(Instant),
      <<" ">> \o IsoText(Instant, "T") \o <<"\n">> }

BadTimestamps ==
    { NotADate,
      IsoText([Instant EXCEPT !.year = 2023], "T"),
      IsoText([Instant EXCEPT !.hour = 24], " ") }

RawTimestamps == GoodTimestamps \cup BadTimestamps

\* CURRENT_TIMESTAMP as the database writes it
Now == strftime([NoDateTime EXCEPT !.ok = TRUE, !.year = 2024, !.month = 1,
                                   !.day = 1, !.hour = 9])

(***************************************************************************)
(* State.                                                                  *)
(***************************************************************************)
VARIABLES
    users,          \* rows of table users
    events,         \* rows of table login_events
    next_event_id,  \* AUTO_INCREMENT counter of login_events
    schema_ensured, \* lru_cache of ensure_login_events_table holds a result
    issued,         \* cookie values some response has set so far
    req,            \* per worker: the request it serves, or its last response
    create_table_count, \* CREATE TABLE statements ensure_login_events_table has issued
    checked_out     \* connections taken from the pool and not given back

vars == <<users, events, next_event_id, schema_ensured, issued, req,
          create_table_count, checked_out>>

Absent == [id |-> 0, username |-> "", password_hash |-> [sha256 |-> <<>>],
           is_admin |-> FALSE, created_at |-> 0]

Idle == [op |-> "none", pc |-> "idle", status |-> "none",
         cookie |-> <<>>, set_cookie |-> <<>>,
         username |-> "", password |-> <<>>, is_admin |-> FALSE,
         user_id |-> 0, event_id |-> 0, logged_in_at |-> <<>>,
         user |-> Absent, current_admin |-> FALSE, admin_total |-> 0,
         is_first_admin |-> FALSE]

Init ==
    /\ users = {}
    /\ events = {}
    /\ next_event_id = 1
    /\ schema_ensured = FALSE
    /\ issued = {}
    /\ req = [p \in Procs |-> Idle]
    /\ create_table_count = 0
    /\ checked_out = 0

(***************************************************************************)
(* Store reads.                                                            *)
(***************************************************************************)
hash_password(password) == [sha256 |-> password]

\* SELECT ... FROM users WHERE username=%s
get_user(U, username) ==
    IF \E row \in U : row.username = username
    THEN CHOOSE row \in U : row.username = username
    ELSE Absent

\* SELECT ... FROM users WHERE id=%s
user_by_id(U, user_id) ==
    IF \E row \in U : row.id = user_id
    THEN CHOOSE row \in U : row.id = user_id
    ELSE Absent

\* the admin count FROM users WHERE is_admin=1
admin_count(U) == Cardinality({row \in U : row.is_admin})

\* a resolver that knows which cookies the server has set
current_user_issued_only(U, cookie) ==
    IF cookie = <<>> \/ cookie[1] = "" \/ cookie[1] \notin issued THEN Absent
    ELSE get_user(U, cookie[1])

current_user(U, cookie) ==
    IF cookie = <<>> \/ cookie[1] = "" THEN Absent ELSE get_user(U, cookie[1])

(***************************************************************************)
(* Request bookkeeping.                                                    *)
(***************************************************************************)
Begin(p) == req[p].pc = "idle"

At(p, op, pc) == req[p].op = op /\ req[p].pc = pc

Set(p, r) == req' = [req EXCEPT ![p] = r]

New(op, cookie) == [Idle EXCEPT !.op = op, !.cookie = cookie]

Done(r, status) == [r EXCEPT !.pc = "done", !.status = status]

\* the checks without the one on is_admin
require_login(r, pc) ==
    IF r.user = Absent THEN Done(r, "login_required")
    ELSE [r EXCEPT !.pc = pc]

\* the two checks every admin handler opens with
require_admin(r, pc) ==
    IF r.user = Absent THEN Done(r, "login_required")
    ELSE IF ~r.user.is_admin THEN Done(r, "forbidden")
    ELSE [r EXCEPT !.pc = pc]

(***************************************************************************)
(* GET /login and GET /register.                                           *)
(***************************************************************************)
login_view(p) ==
    /\ Begin(p)
    /\ \E c \in Cookies :
         LET r == [New("login_view", c) EXCEPT !.user = current_user(users, c)]
         IN  Set(p, Done(r, IF r.user # Absent THEN "redirect_home" ELSE "page"))
    /\ UNCHANGED <<users, events, next_event_id, schema_ensured, issued>>
    /\ UNCHANGED <<create_table_count, checked_out>>

register_view(p) ==
    /\ Begin(p)
    /\ \E c \in Cookies :
         LET r == [New("register_view", c) EXCEPT !.user = current_user(users, c)]
         IN  Set(p, Done(r, IF r.user # Absent THEN "redirect_home" ELSE "page"))
    /\ UNCHANGED <<users, events, next_event_id, schema_ensured, issued>>
    /\ UNCHANGED <<create_table_count, checked_out>>

(***************************************************************************)
(* POST /register: get_user, admin_count, create_user.                     *)
(***************************************************************************)
register_get_user(p) ==
    /\ Begin(p)
    /\ \E c \in Cookies, u \in Names :
         LET r == [New("register", <<>>) EXCEPT !.username = u,
                                                !.user = get_user(users, u)]
         IN  Set(p, IF r.user # Absent THEN Done([r EXCEPT !.cookie = c], "conflict")
                    ELSE [r EXCEPT !.pc = "admin_count"])
    /\ UNCHANGED <<users, events, next_event_id, schema_ensured, issued>>
    /\ UNCHANGED <<create_table_count, checked_out>>

\* the schema of table users declares username UNIQUE: the key rejects a
\* row written with a username that another row holds
users_username_key(U, user_id, username) ==
    \E row \in U : row.username = username /\ row.id # user_id

\* is_first_admin = admin_count() == 0
is_first_admin(U) == admin_count(U) = 0

register_admin_count(p) ==
    /\ At(p, "register", "admin_count")
    /\ Set(p, [req[p] EXCEPT !.is_first_admin = is_first_admin(users),
                             !.pc = "create_user"])
    /\ UNCHANGED <<users, events, next_event_id, schema_ensured, issued>>
    /\ UNCHANGED <<create_table_count, checked_out>>

\* an insert that overwrites the row of a taken username
create_user_upsert(U, username, password, is_admin) ==
    {row \in U : row.username # username}
    \cup {[id |-> IF \E row \in U : row.username = username
                  THEN (CHOOSE row \in U : row.username = username).id
                  ELSE Cardinality(U) + 1,
           username |-> username,
           password_hash |-> [sha256 |-> password],
           is_admin |-> is_admin,
           created_at |-> Cardinality(U) + 1]}

\* INSERT INTO users: the row added, or the table as it was when the unique
\* key on username rejects the row (IntegrityError); the new row has no id yet
create_user(U, username, password, is_admin) ==
    IF users_username_key(U, 0, username) THEN U
    ELSE U \cup {[id |-> Cardinality(U) + 1, username |-> username,
                  password_hash |-> hash_password(password),
                  is_admin |-> is_admin,
                  created_at |-> Cardinality(U) + 1]}

register_create_user(p) ==
    /\ At(p, "register", "create_user")
    /\ \E c \in Cookies, pw \in Passwords :
         LET r == [req[p] EXCEPT !.password = pw, !.cookie = c]
             integrity_error == \E row \in users : row.username = r.username
         IN  /\ users' = create_user(users, r.username, pw, r.is_first_admin)
             /\ IF integrity_error
                THEN /\ Set(p, Done(r, "conflict"))
                     /\ UNCHANGED issued
                ELSE /\ Set(p, [Done(r, "ok") EXCEPT !.set_cookie = <<r.username>>])
                     /\ issued' = issued \cup {r.username}
    /\ UNCHANGED <<events, next_event_id, schema_ensured>>
    /\ UNCHANGED <<create_table_count, checked_out>>

(***************************************************************************)
(* ensure_login_events_table: CREATE TABLE IF NOT EXISTS on the first     *)
(* call, nothing once lru_cache holds the result.  It opens every          *)
(* operation of the login event store.                                     *)
(***************************************************************************)
AfterEnsure(op) ==
    CASE op = "login" -> "insert"
      [] op = "admin_edit_login_event" -> "select"
      [] op = "admin_delete_login_event" -> "delete"

ensure_login_events_table(p) ==
    /\ req[p].pc = "ensure"
    /\ schema_ensured' = TRUE
    /\ Set(p, [req[p] EXCEPT !.pc = AfterEnsure(req[p].op)])
    /\ UNCHANGED <<users, events, next_event_id, issued>>
    \* the statement is issued unless lru_cache holds the result
    /\ create_table_count' = IF schema_ensured THEN create_table_count
                                               ELSE create_table_count + 1
    /\ UNCHANGED checked_out

(***************************************************************************)
(* ensure_login_events_table as the worker threads run it.  lru_cache      *)
(* looks the call up; on a miss it calls the function and stores the       *)
(* result when the function returns, and it stores nothing when the        *)
(* function raises.  The lookup and the call are separate steps: lru_cache *)
(* does not hold a lock while the function runs.                           *)
(***************************************************************************)
ensure_login_events_table_lookup(p) ==
    /\ req[p].pc = "ensure"
    /\ Set(p, [req[p] EXCEPT !.pc = IF schema_ensured THEN AfterEnsure(req[p].op)
                                                      ELSE "create_table"])
    /\ UNCHANGED <<users, events, next_event_id, schema_ensured, issued,
                   create_table_count, checked_out>>

\* CREATE TABLE IF NOT EXISTS, commit, close; lru_cache stores the result
ensure_login_events_table_create(p) ==
    /\ req[p].pc = "create_table"
    /\ create_table_count' = create_table_count + 1
    /\ schema_ensured' = TRUE
    /\ Set(p, [req[p] EXCEPT !.pc = AfterEnsure(req[p].op)])
    /\ UNCHANGED <<users, events, next_event_id, issued, checked_out>>

\* the statement raises errors.Error: HTTPException(500), the connection is
\* closed in finally, lru_cache stores nothing
ensure_login_events_table_error(p) ==
    /\ req[p].pc = "create_table"
    /\ create_table_count < MaxFaults
    /\ create_table_count' = create_table_count + 1
    /\ \E c \in Cookies :
         Set(p, Done([req[p] EXCEPT !.cookie = IF req[p].op = "login" THEN c ELSE @],
                     "unavailable"))
    /\ UNCHANGED <<users, events, next_event_id, schema_ensured, issued, checked_out>>

(***************************************************************************)
(* POST /login: get_user, compare hashes, record_login_event, cookie.      *)
(***************************************************************************)
\* workers that will still insert a login event
Recording ==
    {q \in Procs : req[q].op = "login"
                     /\ req[q].pc \in {"ensure", "create_table", "insert"}}

\* a check of the username alone
credentials_username_only(user, password) == user # Absent

credentials_ok(user, password) ==
    user # Absent /\ user.password_hash = hash_password(password)

login_get_user(p) ==
    /\ Begin(p)
    /\ \E c \in Cookies, u \in Names, pw \in Passwords :
         LET r == [New("login", <<>>) EXCEPT !.username = u, !.password = pw,
                                             !.user = get_user(users, u)]
         IN  IF credentials_ok(r.user, pw)
             THEN /\ next_event_id + Cardinality(Recording \ {p}) <= MaxEvents
                  /\ Set(p, [r EXCEPT !.pc = "ensure"])
             ELSE Set(p, Done([r EXCEPT !.cookie = c], "invalid_credentials"))
    /\ UNCHANGED <<users, events, next_event_id, schema_ensured, issued>>
    /\ UNCHANGED <<create_table_count, checked_out>>

\* INSERT INTO login_events (username) VALUES (%s)
record_login_event(E, id, username) ==
    E \cup {[id |-> id, username |-> username, logged_in_at |-> Now]}

login_record_login_event(p) ==
    /\ At(p, "login", "insert")
    /\ events' = record_login_event(events, next_event_id, req[p].username)
    /\ next_event_id' = next_event_id + 1
    /\ Set(p, [req[p] EXCEPT !.event_id = next_event_id, !.pc = "respond"])
    /\ UNCHANGED <<users, schema_ensured, issued>>
    /\ UNCHANGED <<create_table_count, checked_out>>

login_respond(p) ==
    /\ At(p, "login", "respond")
    /\ \E c \in Cookies :
         Set(p, [Done(req[p], "ok") EXCEPT !.cookie = c,
                                           !.set_cookie = <<req[p].username>>])
    /\ issued' = issued \cup {req[p].username}
    /\ UNCHANGED <<users, events, next_event_id, schema_ensured>>
    /\ UNCHANGED <<create_table_count, checked_out>>

(***************************************************************************)
(* POST /admin/role: current_user, then set_admin_flag (SELECT is_admin,   *)
(* the admin count when an admin is demoted, UPDATE).                      *)
(***************************************************************************)
update_admin_role_current_user(p) ==
    /\ Begin(p)
    /\ \E c \in Cookies :
         LET r == [New("update_admin_role", c) EXCEPT !.user = current_user(users, c)]
         IN  Set(p, require_admin(r, "select"))
    /\ UNCHANGED <<users, events, next_event_id, schema_ensured, issued>>
    /\ UNCHANGED <<create_table_count, checked_out>>

set_admin_flag_select(p) ==
    /\ At(p, "update_admin_role", "select")
    /\ \E u \in Names, a \in BOOLEAN :
         LET row == get_user(users, u)
             r == [req[p] EXCEPT !.username = u, !.is_admin = a,
                                 !.current_admin = row.is_admin]
         IN  Set(p, IF row = Absent THEN Done(r, "not_found")
                    ELSE IF r.current_admin /\ ~a THEN [r EXCEPT !.pc = "count"]
                    ELSE IF r.current_admin = a THEN Done(r, "ok")
                    ELSE [r EXCEPT !.pc = "update"])
    /\ UNCHANGED <<users, events, next_event_id, schema_ensured, issued>>
    \* get_connection; conn.close() in finally when the function ends here
    /\ checked_out' = IF req'[p].pc = "done" THEN checked_out ELSE checked_out + 1
    /\ UNCHANGED create_table_count

\* a guard that lets the last admin go
set_admin_flag_no_admin_left(admin_total) == admin_total < 1

\* if int(admin_total) <= 1: raise "Cannot remove the last admin."
set_admin_flag_last_admin(admin_total) == admin_total <= 1

set_admin_flag_count(p) ==
    /\ At(p, "update_admin_role", "count")
    /\ LET r == [req[p] EXCEPT !.admin_total = admin_count(users)]
       IN  Set(p, IF set_admin_flag_last_admin(r.admin_total)
                  THEN Done(r, "invariant_violation")
                  ELSE [r EXCEPT !.pc = "update"])
    /\ UNCHANGED <<users, events, next_event_id, schema_ensured, issued>>
    \* conn.close() in finally when the function ends here
    /\ checked_out' = IF req'[p].pc = "done" THEN checked_out - 1 ELSE checked_out
    /\ UNCHANGED create_table_count

\* an UPDATE that counts the admins again and keeps the last one
set_admin_flag_guarded(U, username, is_admin) ==
    IF ~is_admin /\ Cardinality({row \in U : row.is_admin}) <= 1 THEN U
    ELSE {IF row.username = username THEN [row EXCEPT !.is_admin = is_admin] ELSE row
            : row \in U}

\* UPDATE users SET is_admin=%s WHERE username=%s
set_admin_flag(U, username, is_admin) ==
    {IF row.username = username THEN [row EXCEPT !.is_admin = is_admin] ELSE row
       : row \in U}

set_admin_flag_update(p) ==
    /\ At(p, "update_admin_role", "update")
    /\ users' = set_admin_flag(users, req[p].username, req[p].is_admin)
    /\ Set(p, Done(req[p], "ok"))
    /\ UNCHANGED <<events, next_event_id, schema_ensured, issued>>
    \* conn.close() in finally
    /\ checked_out' = checked_out - 1
    /\ UNCHANGED create_table_count

\* get_user, called by current_user: conn.cursor() raises, so cur is unbound
\* in finally, cur.close() raises UnboundLocalError and conn.close() is not
\* reached; the handler answers 500
get_user_cursor_error(p) ==
    /\ Begin(p)
    /\ checked_out < MaxFaults
    /\ \E c \in Cookies :
         /\ c # <<>> /\ c[1] # ""
         /\ Set(p, Done(New("update_admin_role", c), "server_error"))
    /\ checked_out' = checked_out + 1
    /\ UNCHANGED <<users, events, next_event_id, schema_ensured, issued,
                   create_table_count>>

\* set_admin_flag: conn.cursor() raises, with the same finally
set_admin_flag_cursor_error(p) ==
    /\ At(p, "update_admin_role", "select")
    /\ checked_out < MaxFaults
    /\ Set(p, Done(req[p], "server_error"))
    /\ checked_out' = checked_out + 1
    /\ UNCHANGED <<users, events, next_event_id, schema_ensured, issued,
                   create_table_count>>

\* a statement of set_admin_flag raises errors.Error: HTTPException(500);
\* finally closes the cursor and the connection (taken in this step when the
\* statement is the first SELECT)
set_admin_flag_statement_error(p) ==
    /\ req[p].op = "update_admin_role" /\ req[p].pc \in {"select", "count", "update"}
    /\ Set(p, Done(req[p], "unavailable"))
    /\ checked_out' = IF req[p].pc = "select" THEN checked_out ELSE checked_out - 1
    /\ UNCHANGED <<users, events, next_event_id, schema_ensured, issued,
                   create_table_count>>

(***************************************************************************)
(* POST /admin/editor/users/update: current_user, then update_user_record  *)
(* (SELECT by id, the admin count when an admin is demoted, UPDATE).       *)
(***************************************************************************)
admin_edit_user_current_user(p) ==
    /\ Begin(p)
    /\ \E c \in Cookies :
         LET r == [New("admin_edit_user", c) EXCEPT !.user = current_user(users, c)]
         IN  Set(p, require_admin(r, "select"))
    /\ UNCHANGED <<users, events, next_event_id, schema_ensured, issued>>
    /\ UNCHANGED <<create_table_count, checked_out>>

update_user_record_select(p) ==
    /\ At(p, "admin_edit_user", "select")
    /\ \E id \in UserIds, a \in BOOLEAN :
         LET row == user_by_id(users, id)
             r == [req[p] EXCEPT !.user_id = id, !.is_admin = a,
                                 !.current_admin = row.is_admin]
         IN  Set(p, IF row = Absent THEN Done(r, "not_found")
                    ELSE IF r.current_admin /\ ~a THEN [r EXCEPT !.pc = "count"]
                    ELSE [r EXCEPT !.pc = "update"])
    /\ UNCHANGED <<users, events, next_event_id, schema_ensured, issued>>
    \* get_connection; conn.close() in finally when the function ends here
    /\ checked_out' = IF req'[p].pc = "done" THEN checked_out ELSE checked_out + 1
    /\ UNCHANGED create_table_count

\* a guard that lets the last admin go
update_user_record_no_admin_left(admin_total) == admin_total < 1

\* if int(admin_total) <= 1: raise "Cannot remove the last admin."
update_user_record_last_admin(admin_total) == admin_total <= 1

update_user_record_count(p) ==
    /\ At(p, "admin_edit_user", "count")
    /\ LET r == [req[p] EXCEPT !.admin_total = admin_count(users)]
       IN  Set(p, IF update_user_record_last_admin(r.admin_total)
                  THEN Done(r, "invariant_violation")
                  ELSE [r EXCEPT !.pc = "update"])
    /\ UNCHANGED <<users, events, next_event_id, schema_ensured, issued>>
    \* conn.close() in finally when the function ends here
    /\ checked_out' = IF req'[p].pc = "done" THEN checked_out - 1 ELSE checked_out
    /\ UNCHANGED create_table_count

\* the unique key on username rejects the UPDATE (IntegrityError)
username_taken(U, user_id, username) ==
    /\ \E row \in U : row.id = user_id
    /\ users_username_key(U, user_id, username)

\* an UPDATE that the unique key does not stop
update_user_record_unchecked(U, user_id, username, is_admin, new_password) ==
    {IF row.id = user_id
     THEN [row EXCEPT !.username = username, !.is_admin = is_admin,
                      !.password_hash = IF new_password # <<>>
                                        THEN [sha256 |-> new_password]
                                        ELSE @]
     ELSE row
       : row \in U}

\* UPDATE users SET username=%s, is_admin=%s[, password_hash=%s] WHERE id=%s
\* new_password = <<>> is None: the handler passes new_password.strip() or None
update_user_record(U, user_id, username, is_admin, new_password) ==
    IF username_taken(U, user_id, username) THEN U
    ELSE {IF row.id = user_id
          THEN [row EXCEPT !.username = username, !.is_admin = is_admin,
                           !.password_hash = IF new_password # <<>>
                                             THEN hash_password(new_password)
                                             ELSE @]
          ELSE row
            : row \in U}

update_user_record_update(p) ==
    /\ At(p, "admin_edit_user", "update")
    /\ \E u \in Names, np \in NewPasswords :
         LET r == [req[p] EXCEPT !.username = u, !.password = np]
         IN  /\ users' = update_user_record(users, r.user_id, u, r.is_admin, strip(np))
             /\ Set(p, Done(r, IF username_taken(users, r.user_id, u)
                               THEN "conflict" ELSE "ok"))
    /\ UNCHANGED <<events, next_event_id, schema_ensured, issued>>
    \* conn.close() in finally
    /\ checked_out' = checked_out - 1
    /\ UNCHANGED create_table_count

(***************************************************************************)
(* POST /admin/editor/login/update: current_user, then update_login_event  *)
(* (ensure table, SELECT 1, parse_timestamp, UPDATE).                      *)
(***************************************************************************)
admin_edit_login_event_current_user(p) ==
    /\ Begin(p)
    /\ \E c \in Cookies :
         LET r == [New("admin_edit_login_event", c) EXCEPT !.user = current_user(users, c)]
         IN  Set(p, require_admin(r, "ensure"))
    /\ UNCHANGED <<users, events, next_event_id, schema_ensured, issued>>
    /\ UNCHANGED <<create_table_count, checked_out>>

update_login_event_select(p) ==
    /\ At(p, "admin_edit_login_event", "select")
    /\ \E id \in EventIds :
         LET r == [req[p] EXCEPT !.event_id = id]
         IN  Set(p, IF \E e \in events : e.id = id THEN [r EXCEPT !.pc = "update"]
                    ELSE Done(r, "not_found"))
    /\ UNCHANGED <<users, events, next_event_id, schema_ensured, issued>>
    \* get_connection; conn.close() in finally when the function ends here
    /\ checked_out' = IF req'[p].pc = "done" THEN checked_out ELSE checked_out + 1
    /\ UNCHANGED create_table_count

\* an UPDATE without its WHERE clause
update_login_event_every_row(E, event_id, username, logged_in_at) ==
    {[e EXCEPT !.username = username, !.logged_in_at = logged_in_at] : e \in E}

\* UPDATE login_events SET username=%s, logged_in_at=%s WHERE id=%s
update_login_event(E, event_id, username, logged_in_at) ==
    {IF e.id = event_id
     THEN [e EXCEPT !.username = username, !.logged_in_at = logged_in_at]
     ELSE e
       : e \in E}

\* typed text, what the table editor shows for the stored timestamps, and
\* the stored timestamps as the database prints them
SubmittedTimestamps ==
    RawTimestamps \cup {format_ts(e.logged_in_at) : e \in events}
                  \cup {e.logged_in_at : e \in events}

update_login_event_update(p) ==
    /\ At(p, "admin_edit_login_event", "update")
    /\ \E u \in Names, raw \in SubmittedTimestamps :
         LET r == [req[p] EXCEPT !.username = u, !.logged_in_at = raw]
             ts == parse_timestamp(raw)
         IN  IF ts.ok
             THEN /\ events' = update_login_event(events, r.event_id, u, ts.value)
                  /\ Set(p, Done(r, "ok"))
             ELSE /\ UNCHANGED events
                  /\ Set(p, Done(r, "invalid_input"))
    /\ UNCHANGED <<users, next_event_id, schema_ensured, issued>>
    \* conn.close() in finally
    /\ checked_out' = checked_out - 1
    /\ UNCHANGED create_table_count

(***************************************************************************)
(* POST /admin/editor/login/delete: current_user, then delete_login_event  *)
(* (ensure table, DELETE).                                                 *)
(***************************************************************************)
admin_delete_login_event_current_user(p) ==
    /\ Begin(p)
    /\ \E c \in Cookies :
         LET r == [New("admin_delete_login_event", c) EXCEPT !.user = current_user(users, c)]
         IN  Set(p, require_admin(r, "ensure"))
    /\ UNCHANGED <<users, events, next_event_id, schema_ensured, issued>>
    /\ UNCHANGED <<create_table_count, checked_out>>

\* a DELETE without its WHERE clause
delete_login_event_every_row(E, event_id) == {}

\* DELETE FROM login_events WHERE id=%s
delete_login_event(E, event_id) == {e \in E : e.id # event_id}

delete_login_event_delete(p) ==
    /\ At(p, "admin_delete_login_event", "delete")
    /\ \E id \in EventIds :
         /\ events' = delete_login_event(events, id)
         /\ Set(p, Done([req[p] EXCEPT !.event_id = id], "ok"))
    /\ UNCHANGED <<users, next_event_id, schema_ensured, issued>>
    /\ UNCHANGED <<create_table_count, checked_out>>

(***************************************************************************)
(* GET /health: get_connection, cursor, SELECT 1, close both; any          *)
(* exception is answered with "degraded".                                  *)
(***************************************************************************)
health(p) ==
    /\ Begin(p)
    /\ Set(p, Done(New("health", <<>>), "ok"))
    /\ UNCHANGED <<users, events, next_event_id, schema_ensured, issued,
                   create_table_count, checked_out>>

\* get_connection raises: no connection was taken
health_unavailable(p) ==
    /\ Begin(p)
    /\ Set(p, Done(New("health", <<>>), "degraded"))
    /\ UNCHANGED <<users, events, next_event_id, schema_ensured, issued,
                   create_table_count, checked_out>>

\* conn.cursor(), cur.execute or cur.fetchone raises: the except clause
\* answers, and conn.close() in the try block is not reached
health_error(p) ==
    /\ Begin(p)
    /\ checked_out < MaxFaults
    /\ Set(p, Done(New("health", <<>>), "degraded"))
    /\ checked_out' = checked_out + 1
    /\ UNCHANGED <<users, events, next_event_id, schema_ensured, issued,
                   create_table_count>>

(***************************************************************************)
(* The response leaves the worker, which is free for the next request.     *)
(***************************************************************************)
respond(p) ==
    /\ req[p].pc = "done"
    /\ Set(p, Idle)
    /\ UNCHANGED <<users, events, next_event_id, schema_ensured, issued>>
    /\ UNCHANGED <<create_table_count, checked_out>>

(***************************************************************************)
(* Specifications.                                                         *)
(***************************************************************************)
\* the steps of the handlers of the users table
UserStep(p) ==
    \/ register_get_user(p)
    \/ register_admin_count(p)
    \/ register_create_user(p)
    \/ update_admin_role_current_user(p)
    \/ set_admin_flag_select(p)
    \/ set_admin_flag_count(p)
    \/ set_admin_flag_update(p)
    \/ admin_edit_user_current_user(p)
    \/ update_user_record_select(p)
    \/ update_user_record_count(p)
    \/ update_user_record_update(p)

\* the steps of the login handlers and of the handlers of the login events
EventStep(p) ==
    \/ login_view(p)
    \/ register_view(p)
    \/ login_get_user(p)
    \/ ensure_login_events_table(p)
    \/ login_record_login_event(p)
    \/ login_respond(p)
    \/ admin_edit_login_event_current_user(p)
    \/ update_login_event_select(p)
    \/ update_login_event_update(p)
    \/ admin_delete_login_event_current_user(p)
    \/ delete_login_event_delete(p)
    \/ respond(p)

\* every handler, requests served one at a time
Worker == CHOOSE p \in Procs : TRUE

Next == UserStep(Worker) \/ EventStep(Worker)

Spec == Init /\ [][Next]_vars

\* the handlers of the users table, served concurrently by the worker threads
\* (a finished response leaves before another thread is scheduled: respond
\* changes nothing that another worker reads)
NextConc == \E p \in Procs :
    \/ (\A q \in Procs : req[q].pc # "done") /\ UserStep(p)
    \/ respond(p)

SpecConc == Init /\ [][NextConc]_vars

\* POST /register alone, served concurrently by the worker threads
NextRegister == \E p \in Procs :
    \/ /\ \A q \in Procs : req[q].pc # "done"
       /\ register_get_user(p) \/ register_admin_count(p) \/ register_create_user(p)
    \/ respond(p)

SpecRegister == Init /\ [][NextRegister]_vars

\* registration, login and the deletion of login events, served concurrently
\* by the worker threads, with errors of the CREATE TABLE statement
EnsureStep(p) ==
    \/ register_get_user(p)
    \/ register_admin_count(p)
    \/ register_create_user(p)
    \/ login_get_user(p)
    \/ ensure_login_events_table_lookup(p)
    \/ ensure_login_events_table_create(p)
    \/ ensure_login_events_table_error(p)
    \/ login_record_login_event(p)
    \/ login_respond(p)
    \/ admin_delete_login_event_current_user(p)
    \/ delete_login_event_delete(p)

NextEnsure == \E p \in Procs :
    \/ (\A q \in Procs : req[q].pc # "done") /\ EnsureStep(p)
    \/ respond(p)

SpecEnsure == Init /\ [][NextEnsure]_vars

\* registration, POST /admin/role and GET /health, served concurrently by
\* the worker threads, with errors of the cursor and of the statements
PoolStep(p) ==
    \/ register_get_user(p)
    \/ register_admin_count(p)
    \/ register_create_user(p)
    \/ update_admin_role_current_user(p)
    \/ get_user_cursor_error(p)
    \/ set_admin_flag_select(p)
    \/ set_admin_flag_count(p)
    \/ set_admin_flag_update(p)
    \/ set_admin_flag_cursor_error(p)
    \/ set_admin_flag_statement_error(p)
    \/ health(p)
    \/ health_unavailable(p)
    \/ health_error(p)

NextPool == \E p \in Procs :
    \/ (\A q \in Procs : req[q].pc # "done") /\ PoolStep(p)
    \/ respond(p)

SpecPool == Init /\ [][NextPool]_vars

(***************************************************************************)
(* Properties.                                                             *)
(***************************************************************************)
AdminOps == {"update_admin_role", "admin_edit_user",
             "admin_edit_login_event", "admin_delete_login_event"}

\* the rows of users a cookie names
Resolved(c) ==
    IF c = <<>> \/ c[1] = "" THEN {} ELSE {row \in users : row.username = c[1]}

\* worker p takes this step
Steps(p) == req'[p] # req[p]

\* this step of p ends its request
Ends(p) == req[p].pc # "done" /\ req'[p].pc = "done"

\* the request asks to take the admin flag from an admin
Demotes(r) ==
    r.op \in {"update_admin_role", "admin_edit_user"} /\ r.current_admin /\ ~r.is_admin

\* C1: with requests served one at a time from an empty users table, whenever
\* a user exists some user has is_admin = true.
C1_AdminExists == users # {} => \E row \in users : row.is_admin

C1_Witness ==
    \E p \in Procs : /\ req[p].pc = "done" /\ Demotes(req[p])
                     /\ req[p].status = "invariant_violation"
                     /\ Cardinality(users) = 2

\* C2: in every interleaving of POST /register requests from an empty users
\* table the first user created is an admin and no later one is (ids number
\* the rows in the order of their creation; registration alone never changes
\* is_admin).
C2_OnlyFirstIsAdmin == \A row \in users : row.is_admin = (row.id = 1)

\* C3 as claimed: demoting the only admin fails with InvariantViolation and
\* changes no user record; with two or more admins the same demotion succeeds.
C3_SoleAdminKept_AnyDemotionSucceeds ==
    [][\A p \in Procs :
         /\ (req[p].pc = "count" /\ Steps(p)) =>
               IF Cardinality({row \in users : row.is_admin}) <= 1
               THEN /\ Ends(p) /\ req'[p].status = "invariant_violation"
                    /\ users' = users
               ELSE req'[p].pc = "update" /\ users' = users
         /\ (req[p].pc = "update" /\ Demotes(req[p]) /\ Steps(p)) =>
               /\ Ends(p) /\ req'[p].status = "ok"
               /\ \A row \in users' :
                    (IF req[p].op = "update_admin_role"
                     THEN row.username = req[p].username
                     ELSE row.id = req[p].user_id) => ~row.is_admin
      ]_vars

\* C3 amended: demoting the only admin fails with InvariantViolation and
\* changes no user record; with two or more admins setAdminFlag succeeds, and
\* updateRecord succeeds unless its new username is held by another user, in
\* which case it fails with Conflict and changes no user record.
C3_SoleAdminKept ==
    [][\A p \in Procs :
         /\ (req[p].pc = "count" /\ Steps(p)) =>
               IF Cardinality({row \in users : row.is_admin}) <= 1
               THEN /\ Ends(p) /\ req'[p].status = "invariant_violation"
                    /\ users' = users
               ELSE req'[p].pc = "update" /\ users' = users
         /\ (req[p].pc = "update" /\ Demotes(req[p]) /\ Steps(p)) =>
               IF /\ req[p].op = "admin_edit_user"
                  /\ \E row \in users : /\ row.username = req'[p].username
                                        /\ row.id # req[p].user_id
               THEN /\ Ends(p) /\ req'[p].status = "conflict"
                    /\ users' = users
               ELSE /\ Ends(p) /\ req'[p].status = "ok"
                    /\ \A row \in users' :
                         (IF req[p].op = "update_admin_role"
                          THEN row.username = req[p].username
                          ELSE row.id = req[p].user_id) => ~row.is_admin
      ]_vars

C3_Witness ==
    \E p \in Procs : /\ req[p].pc = "done" /\ req[p].op = "admin_edit_user"
                     /\ Demotes(req[p])
                     /\ req[p].status = "invariant_violation"
                     /\ Cardinality(users) = 2

\* C4: a registration for a username that exists, whether the lookup or the
\* insert finds it, ends with Conflict, leaves the users table as it was and
\* sets no cookie.
C4_RejectedRegistration ==
    [][\A p \in Procs :
         ( /\ req'[p].op = "register"
           /\ req[p].pc \in {"idle", "create_user"}
           /\ Steps(p)
           /\ \E row \in users : row.username = req'[p].username )
         => /\ Ends(p) /\ req'[p].status = "conflict"
            /\ users' = users
            /\ req'[p].set_cookie = <<>>
            /\ issued' = issued
      ]_vars

\* the insert met a username that the lookup had found free
C4_Witness ==
    \E p \in Procs : /\ req[p].pc = "done" /\ req[p].op = "register"
                     /\ req[p].status = "conflict"
                     /\ req[p].user = Absent

\* C5: a POST /login with the password of an existing user appends one login
\* event with that username and then sets the cookie to that username; with
\* an unknown username or another password it appends nothing and sets no
\* cookie.
C5_Login ==
    [][\A p \in Procs :
         /\ (req'[p].op = "login" /\ req[p].pc = "idle" /\ Steps(p)) =>
               /\ events' = events
               /\ IF \E row \in users :
                       /\ row.username = req'[p].username
                       /\ row.password_hash = [sha256 |-> req'[p].password]
                  THEN req'[p].pc = "ensure"
                  ELSE /\ Ends(p) /\ req'[p].status = "invalid_credentials"
                       /\ req'[p].set_cookie = <<>>
                       /\ issued' = issued
         /\ (req[p].op = "login" /\ req[p].pc = "ensure" /\ Steps(p)) =>
               events' = events /\ req'[p].pc = "insert"
         /\ (req[p].op = "login" /\ req[p].pc = "insert" /\ Steps(p)) =>
               /\ \E e \in events' :
                    /\ e.username = req[p].username
                    /\ \A old \in events : old.id # e.id
                    /\ events' = events \cup {e}
               /\ req'[p].pc = "respond"
               /\ req'[p].set_cookie = <<>>
               /\ issued' = issued
         /\ (req[p].op = "login" /\ req[p].pc = "respond" /\ Steps(p)) =>
               /\ events' = events
               /\ Ends(p) /\ req'[p].status = "ok"
               /\ req'[p].set_cookie = <<req[p].username>>
      ]_vars

C5_Witness ==
    \E p \in Procs : /\ req[p].pc = "done" /\ req[p].op = "login"
                     /\ req[p].status = "ok"
                     /\ req[p].set_cookie = <<req[p].username>>
                     /\ \E e \in events : e.id = req[p].event_id
                     /\ Cardinality(events) = 2

\* C6: an admin-only POST whose cookie names no user is sent to the login
\* page, one whose cookie names a user who is not an admin is refused, and
\* neither changes a table; a step of an admin-only POST changes a table only
\* when the cookie names a user whose is_admin is true at that time.
C6_AdminOnly ==
    [][\A p \in Procs :
         /\ (req'[p].op \in AdminOps /\ req[p].pc = "idle" /\ Steps(p)) =>
               IF Resolved(req'[p].cookie) = {}
               THEN Ends(p) /\ req'[p].status = "login_required"
               ELSE IF \E row \in Resolved(req'[p].cookie) : ~row.is_admin
               THEN Ends(p) /\ req'[p].status = "forbidden"
               ELSE req'[p].pc # "done"
         /\ (req'[p].op \in AdminOps /\ Steps(p)
               /\ req'[p].status \in {"login_required", "forbidden"}) =>
               users' = users /\ events' = events
         /\ (req[p].op \in AdminOps /\ Steps(p)
               /\ (users' # users \/ events' # events)) =>
               /\ Resolved(req[p].cookie) # {}
               /\ \A row \in Resolved(req[p].cookie) : row.is_admin
      ]_vars

\* the first user, registered as admin and demoted since, is refused
C6_Witness ==
    \E p \in Procs : /\ req[p].pc = "done" /\ req[p].op \in AdminOps
                     /\ req[p].status = "forbidden"
                     /\ req[p].user.id = 1

\* C7: a POST to /login or /register whose cookie names an existing user
\* performs no login and no registration.  (When a registration has
\* succeeded the table holds the new user: the cookie named an existing user
\* if it names another one.)
C7_AnonymousOnly ==
    \A p \in Procs :
        ( /\ req[p].pc = "done"
          /\ req[p].op \in {"login", "register"}
          /\ \E row \in Resolved(req[p].cookie) :
               req[p].op = "register" => row.username # req[p].username )
        => req[p].status # "ok"

\* C8: the user a handler resolves is absent when the cookie is missing or
\* empty, and otherwise the row now stored under the cookie's value (absent
\* when there is none), whether or not a response ever set that cookie.
C8_Resolve ==
    [][\A p \in Procs :
         ( /\ req[p].pc = "idle" /\ Steps(p)
           /\ req'[p].op \in AdminOps \cup {"login_view", "register_view"} )
         => LET c == req'[p].cookie
            IN  IF c = <<>> \/ c[1] = "" THEN req'[p].user = Absent
                ELSE IF \E row \in users : row.username = c[1]
                THEN req'[p].user \in users /\ req'[p].user.username = c[1]
                ELSE req'[p].user = Absent
      ]_vars

\* a cookie that no response has set resolves to a user
C8_Witness ==
    \E p \in Procs : /\ req[p].op \in AdminOps \cup {"login_view", "register_view"}
                     /\ req[p].cookie # <<>>
                     /\ req[p].user # Absent
                     /\ req[p].user.username = req[p].cookie[1]
                     /\ req[p].cookie[1] \notin issued

\* C9: update of a login event fails with NotFound when no row has the id
\* and with InvalidInput when the row exists and the timestamp does not
\* parse, changing no row; otherwise the row with the id gets the username
\* and the parsed timestamp and every other row stays as it was.
C9_UpdateLoginEvent ==
    [][\A p \in Procs :
         /\ (req[p].op = "admin_edit_login_event" /\ req[p].pc = "select" /\ Steps(p)) =>
               /\ events' = events
               /\ IF \E e \in events : e.id = req'[p].event_id
                  THEN req'[p].pc = "update"
                  ELSE Ends(p) /\ req'[p].status = "not_found"
         /\ (req[p].op = "admin_edit_login_event" /\ req[p].pc = "update" /\ Steps(p)) =>
               IF req'[p].logged_in_at \in BadTimestamps
               THEN /\ Ends(p) /\ req'[p].status = "invalid_input"
                    /\ events' = events
               ELSE /\ Ends(p) /\ req'[p].status = "ok"
                    /\ {e.id : e \in events'} = {e.id : e \in events}
                    /\ \A e \in events : e.id # req[p].event_id => e \in events'
                    /\ \A e \in events' : e.id = req[p].event_id =>
                         /\ e.username = req'[p].username
                         /\ parse_timestamp(req'[p].logged_in_at).ok
                         /\ e.logged_in_at = parse_timestamp(req'[p].logged_in_at).value
      ]_vars

\* one of two rows has been overwritten
C9_Witness ==
    \E p \in Procs : /\ req[p].pc = "done" /\ req[p].op = "admin_edit_login_event"
                     /\ req[p].status = "ok"
                     /\ \E e1, e2 \in events :
                          /\ e1.id = req[p].event_id /\ e2.id # e1.id
                          /\ e1.logged_in_at # Now /\ e2.logged_in_at = Now

\* C10: an instant written with T and written with a blank between date and
\* time are both accepted and stored as the same text, and the timestamp an
\* update or a login has stored, as the database prints it or as the editor
\* shows it, parses to itself.
C10_Normalised ==
    \A p \in Procs :
        /\ ( /\ req[p].pc = "done" /\ req[p].status = "ok"
             /\ req[p].op \in {"login", "admin_edit_login_event"} )
           => \A e \in events : e.id = req[p].event_id =>
                /\ parse_timestamp(e.logged_in_at)
                     = [ok |-> TRUE, value |-> e.logged_in_at]
                /\ parse_timestamp(format_ts(e.logged_in_at))
                     = [ok |-> TRUE, value |-> e.logged_in_at]
        /\ ( /\ req[p].pc = "done" /\ req[p].op = "admin_edit_login_event"
             /\ req[p].status \in {"ok", "invalid_input"}
             /\ req[p].logged_in_at \in {IsoText(Instant, "T"), IsoText(Instant, " ")} )
           => /\ req[p].status = "ok"
              /\ \A e \in events : e.id = req[p].event_id =>
                   e.logged_in_at = IsoText(Instant, " ")

C10_Witness ==
    \E p \in Procs : /\ req[p].pc = "done" /\ req[p].op = "admin_edit_login_event"
                     /\ req[p].status = "ok"
                     /\ req[p].logged_in_at = IsoText(Instant, "T")
                     /\ \E e \in events : /\ e.id = req[p].event_id
                                          /\ e.logged_in_at = IsoText(Instant, " ")

\* C11: delete of a login event always succeeds; it removes the row with the
\* id, when there is one, and no other row, and leaves the table as it was
\* when no row has the id; afterwards no row has the id, so that a second
\* delete of the same id falls under the second case.
C11_DeleteIdempotent ==
    [][\A p \in Procs :
         (req[p].op = "admin_delete_login_event" /\ req[p].pc = "delete" /\ Steps(p)) =>
            LET id == req'[p].event_id
            IN  /\ Ends(p) /\ req'[p].status = "ok"
                /\ events' \subseteq events
                /\ \A e \in events : e \in events' <=> e.id # id
                /\ (\A e \in events : e.id # id) => events' = events
                /\ \A e \in events' : e.id # id
                /\ next_event_id' = next_event_id
      ]_vars

\* one of two login events has been deleted
C11_Witness ==
    \E p \in Procs : /\ req[p].pc = "done" /\ req[p].op = "admin_delete_login_event"
                     /\ req[p].status = "ok"
                     /\ req[p].event_id < next_event_id
                     /\ \A e \in events : e.id # req[p].event_id
                     /\ Cardinality(events) = 1 /\ next_event_id = 3

\* C12: in every interleaving of registrations, role changes and updates of
\* user records no two rows of users have the same username; an insert of a
\* username that a row holds and an update to a username that another row
\* holds end with Conflict and leave the table as it was.
C12_UniqueUsernames ==
    [][/\ \A r1, r2 \in users' : r1.username = r2.username => r1 = r2
       /\ \A p \in Procs :
            /\ ( /\ req[p].op = "register" /\ req[p].pc = "create_user" /\ Steps(p)
                 /\ \E row \in users : row.username = req[p].username )
               => /\ Ends(p) /\ req'[p].status = "conflict"
                  /\ users' = users
            /\ ( /\ req[p].op = "admin_edit_user" /\ req[p].pc = "update" /\ Steps(p)
                 /\ \E row \in users : /\ row.username = req'[p].username
                                       /\ row.id # req[p].user_id )
               => /\ Ends(p) /\ req'[p].status = "conflict"
                  /\ users' = users
      ]_vars

\* an update to the username of another user has been refused
C12_Witness ==
    \E p \in Procs : /\ req[p].pc = "done" /\ req[p].op = "admin_edit_user"
                     /\ req[p].status = "conflict"
                     /\ \E r1, r2 \in users : /\ r1.id = req[p].user_id
                                              /\ r2.id # r1.id
                                              /\ r2.username = req[p].username
                                              /\ r1.username # r2.username

\* C13: the guard of a demotion passes exactly when the admin count it reads
\* is at least 2, and the write that follows applies whatever the count has
\* become since: when the target is by then the only admin, the write leaves
\* users without an admin.
C13_CheckThenAct ==
    [][\A p \in Procs :
         /\ (req[p].pc = "count" /\ Steps(p)) =>
               /\ (req'[p].pc = "update")
                     = (Cardinality({row \in users : row.is_admin}) >= 2)
               /\ users' = users
         /\ (req[p].op = "update_admin_role" /\ req[p].pc = "update"
               /\ Demotes(req[p]) /\ Steps(p)) =>
               /\ Ends(p) /\ req'[p].status = "ok"
               /\ \A row \in users' : row.username = req[p].username => ~row.is_admin
               /\ (\A row \in users : row.is_admin => row.username = req[p].username)
                     => \A row \in users' : ~row.is_admin
         /\ (req[p].op = "admin_edit_user" /\ req[p].pc = "update"
               /\ Demotes(req[p]) /\ Steps(p) /\ req'[p].status # "conflict") =>
               /\ Ends(p) /\ req'[p].status = "ok"
               /\ \A row \in users' : row.id = req[p].user_id => ~row.is_admin
               /\ (\A row \in users : row.is_admin => row.id = req[p].user_id)
                     => \A row \in users' : ~row.is_admin
      ]_vars

\* two demotions have both read two admins, and no admin is left
C13_Witness ==
    /\ Cardinality(users) >= 2
    /\ \A row \in users : ~row.is_admin
    /\ \E p \in Procs : /\ req[p].pc = "done" /\ Demotes(req[p])
                        /\ req[p].status = "ok"
                        /\ req[p].admin_total = 2

\* C16: a successful update of a user record leaves every other row of users
\* and the login events as they were; the row with the id keeps its id and
\* created_at, takes the username and is_admin of the request, and takes the
\* hash of the new password as it was supplied when that is not empty after
\* trimming, keeping its password_hash otherwise.
C16_UpdateUserRecord ==
    [][\A p \in Procs :
         ( /\ req[p].op = "admin_edit_user" /\ req[p].pc = "update" /\ Steps(p)
           /\ req'[p].status = "ok" )
         => LET id == req[p].user_id
                new_password == req'[p].password
            IN  /\ events' = events /\ next_event_id' = next_event_id
                /\ {row.id : row \in users'} = {row.id : row \in users}
                /\ Cardinality(users') = Cardinality(users)
                /\ \A row \in users : row.id # id => row \in users'
                /\ \A old \in users, new \in users' :
                     (old.id = id /\ new.id = id) =>
                        /\ new.username = req'[p].username
                        /\ new.is_admin = req[p].is_admin
                        /\ new.created_at = old.created_at
                        /\ new.password_hash =
                              IF strip(new_password) # <<>>
                              THEN [sha256 |-> new_password]
                              ELSE old.password_hash
      ]_vars

\* C14: over every interleaving of logins and deletions of login events, and
\* with calls of ensure_login_events_table that raise, the CREATE TABLE
\* statement is issued at most once: every call after the first issues none.
C14_CreateTableOnce == create_table_count <= 1

\* C15: whenever no request is being served, every connection taken from
\* the pool has been given back.
C15_AllReleased ==
    (\A p \in Procs : req[p].pc \in {"idle", "done"}) => checked_out = 0

=============================================================================
